---- MODULE Spec2Model ----
(***************************************************************************)
(* Recipe resolution and discovery of goose-cli                            *)
(* (crates/goose-cli/src/recipes/search_recipe.rs).                        *)
(*                                                                         *)
(* Strings are sequences of atoms: one-character strings, except that the  *)
(* words "yaml", "json" and "cwd" are single atoms.  A path is such a      *)
(* string, with "/" separating its components.                             *)
(*                                                                         *)
(* The world (file system, GOOSE_RECIPE_PATH, configuration, remote        *)
(* repository) is drawn in Init and read, never written, by the program.   *)
(* Spec is the resolution of recipes (retrieve_recipe_file), SpecList      *)
(* their listing (list_available_recipes), SpecCommand the commands        *)
(* handle_validate and handle_deeplink                                     *)
(* (crates/goose-cli/src/commands/recipe.rs).                              *)
(***************************************************************************)
EXTENDS Naturals, Sequences, FiniteSets, TLC

VARIABLES
    fs,       \* fs[D][f]: the kind of file f in the physical directory D
    dKind,    \* what the name "d" in the current directory is: "dir" or "file"
    env,      \* GOOSE_RECIPE_PATH: [state, val]
    config,   \* outcome of the GOOSE_RECIPE_GITHUB_REPO lookup: "some", "none", "err"
    remote,   \* the remote repository answers ("up") or fails ("down")
    op,       \* the last call: [name, arg]
    ret,      \* result of the last retrieve_recipe_file
    listed,   \* result of the last list_available_recipes
    trace,    \* what the last call did, in order
    loaded,   \* what load_recipe returned to the last command
    cmd       \* result of the last handle_validate or handle_deeplink

vars == <<fs, dKind, env, config, remote, op, ret, listed, trace, loaded, cmd>>
world == <<fs, dKind, env, config, remote>>

----------------------------------------------------------------------------
(* Bounds of the world *)

\* most files that exist in the recipe directories
MaxFiles == 2

\* longest title of a recipe
MaxTitleLen == 2

\* the directories GOOSE_RECIPE_PATH names when it is set: the empty name
\* (which names no directory), the current directory, its entry d, d and then
\* the current directory again, the empty name and then d
EnvDirLists ==
    { << <<>> >>,
      << <<".">> >>,
      << <<"d">> >>,
      << <<"d">>, <<".">> >>,
      << <<>>, <<"d">> >> }

\* the file names that may exist in a directory
FileNames == { <<"a", ".", "yaml">>, <<"a", ".", "json">> }

\* the directories that may hold recipe files: the current directory /cwd and /cwd/d
RecipeDirs == {"cwd", "d"}

\* "valid": readable, parses; "malformed": readable, does not parse (bad
\* syntax, or a template placeholder that is left unresolved);
\* "unreadable": read_to_string fails (permissions, not UTF-8);
\* "nocanon": readable and parses, but canonicalize fails on its path
Kinds == {"absent", "valid", "malformed", "unreadable", "nocanon"}

\* the identifiers retrieve_recipe_file is called with
Identifiers ==
    { <<"a">>,
      <<"a", ".", "yaml">>,
      <<"a", ".", "json">>,
      <<"d", "/", "a", ".", "yaml">> }

----------------------------------------------------------------------------
(* Strings *)

RECURSIVE SplitFrom(_, _, _)
SplitFrom(s, sep, cur) ==
    IF s = <<>> THEN <<cur>>
    ELSE IF Head(s) = sep THEN <<cur>> \o SplitFrom(Tail(s), sep, <<>>)
    ELSE SplitFrom(Tail(s), sep, Append(cur, Head(s)))

\* str::split(sep): the pieces between the separators; "" gives one empty piece
Split(s, sep) == SplitFrom(s, sep, <<>>)

RECURSIVE Join(_, _)
\* [..].join(sep)
Join(pieces, sep) ==
    IF pieces = <<>> THEN <<>>
    ELSE IF Len(pieces) = 1 THEN Head(pieces)
    ELSE Head(pieces) \o <<sep>> \o Join(Tail(pieces), sep)

\* str::ends_with
EndsWith(s, suffix) ==
    /\ Len(s) >= Len(suffix)
    /\ SubSeq(s, Len(s) - Len(suffix) + 1, Len(s)) = suffix

\* the positions of atom c in s
Positions(s, c) == { i \in 1..Len(s) : s[i] = c }

Max(S) == CHOOSE x \in S : \A y \in S : y <= x

Last(s) == s[Len(s)]

\* the one element of a one-element set; { F(x) : x \in {e} } evaluates e once
The(S) == CHOOSE x \in S : TRUE

----------------------------------------------------------------------------
(* The file system.  Physical directories: "cwd" (/cwd, the process's      *)
(* current directory) and "d" (/cwd/d).  Paths are relative to cwd.        *)

NoObj == [type |-> "none", dir |-> "", file |-> <<>>]
DirObj(D) == [type |-> "dir", dir |-> D, file |-> <<>>]
FileObj(D, f) == [type |-> "file", dir |-> D, file |-> f]

\* the entry named c of the physical directory D
Child(D, c) ==
    IF D = "cwd" /\ c = <<"d">>
        THEN (IF dKind = "dir" THEN DirObj("d") ELSE FileObj("cwd", c))
    ELSE IF D \in RecipeDirs /\ c \in FileNames /\ fs[D][c] # "absent"
        THEN FileObj(D, c)
    ELSE NoObj

\* one step of path resolution
Step(obj, comp) ==
    IF obj.type # "dir" THEN NoObj
    ELSE IF comp = <<".">> THEN obj
    ELSE Child(obj.dir, comp)

RECURSIVE Walk(_, _)
Walk(obj, comps) ==
    IF comps = <<>> THEN obj ELSE Walk(Step(obj, Head(comps)), Tail(comps))

NonEmpty(c) == c # <<>>

\* what the operating system finds at a path; the empty path names nothing
Lookup(path) ==
    IF path = <<>> THEN NoObj
    ELSE Walk(DirObj("cwd"), SelectSeq(Split(path, "/"), NonEmpty))

\* Path::join
PathJoin(dir, name) ==
    IF name # <<>> /\ Head(name) = "/" THEN name
    ELSE IF dir = <<>> THEN name
    ELSE IF Last(dir) = "/" THEN dir \o name
    ELSE dir \o <<"/">> \o name

\* Path::exists, Path::is_dir, Path::is_file
Exists(path) == Lookup(path).type # "none"
IsDir(path) == Lookup(path).type = "dir"
IsFile(path) == Lookup(path).type = "file"

\* the kind of a file system object ("absent" when it is no file)
KindOf(o) ==
    IF o.type = "file" /\ o.file \in FileNames THEN fs[o.dir][o.file]
    ELSE IF o.type = "file" THEN "unreadable"
    ELSE "absent"

\* what a file holds names the physical file it was read from
NoContent == [dir |-> "", file |-> <<>>]
ContentOf(o) == [dir |-> o.dir, file |-> o.file]

ReadableKinds == {"valid", "malformed", "nocanon"}
ParsableKinds == {"valid", "nocanon"}

\* fs::read_to_string succeeds on the object
CanRead(o) == KindOf(o) \in ReadableKinds

CanonDir(D) ==
    IF D = "cwd" THEN <<"/", "cwd">> ELSE <<"/", "cwd", "/", "d">>

\* Path::canonicalize succeeds on the object
CanCanonicalize(o) == o.type # "none" /\ KindOf(o) # "nocanon"

\* Path::canonicalize: the absolute path of the object
Canonicalize(o) ==
    IF o.type = "dir" THEN CanonDir(o.dir) ELSE PathJoin(CanonDir(o.dir), o.file)

\* Path::file_name: the last component
FileNameOf(path) ==
    LET sl == Positions(path, "/") IN
    IF sl = {} THEN path ELSE SubSeq(path, Max(sl) + 1, Len(path))

\* Path::extension is Some: the file name has a "." that is not its first character
HasExtension(path) ==
    LET dots == Positions(FileNameOf(path), ".") IN dots # {} /\ Max(dots) > 1

\* Path::extension: what follows the last "." of the file name
Extension(path) ==
    LET f == FileNameOf(path) IN SubSeq(f, Max(Positions(f, ".")) + 1, Len(f))

\* Path::file_stem: the file name without its extension
FileStem(path) ==
    LET f == FileNameOf(path) IN
    IF HasExtension(path) THEN SubSeq(f, 1, Max(Positions(f, ".")) - 1) ELSE f

\* Path::parent is Some
HasParent(path) == path # <<>> /\ path # <<"/">>

\* Path::parent: the path without its last component
PathParent(path) ==
    LET sl == Positions(path, "/") IN
    IF sl = {} THEN <<>>
    ELSE IF Max(sl) = 1 THEN <<"/">>
    ELSE SubSeq(path, 1, Max(sl) - 1)

----------------------------------------------------------------------------
(* Results, errors and the record of what a call did *)

Err(kind, name, path, dirs) ==
    [kind |-> kind, name |-> name, path |-> path, dirs |-> dirs]
NoErr == Err("none", <<>>, <<>>, <<>>)

Success(content, base) ==
    [ok |-> TRUE, content |-> content, base |-> base, err |-> NoErr]
Failure(e) ==
    [ok |-> FALSE, content |-> NoContent, base |-> <<>>, err |-> e]
NoResult == Failure(NoErr)

Ev(ev, path, ok) == [ev |-> ev, path |-> path, ok |-> ok]
Out(res, tr) == [res |-> res, tr |-> tr]

----------------------------------------------------------------------------
(* External collaborators *)

\* recipes/recipe.rs: the recognized extensions, in priority order
RECIPE_FILE_EXTENSIONS == <<"yaml", "json">>

GOOSE_RECIPE_REPO == <<"r">>

\* Config::global().get_param(GOOSE_RECIPE_GITHUB_REPO_CONFIG_KEY)
get_param ==
    [ok |-> config # "err", some |-> config = "some", val |-> GOOSE_RECIPE_REPO]

\* env::var(GOOSE_RECIPE_PATH_ENV_VAR): Err when unset or not unicode
env_var == [ok |-> env.state = "set", val |-> env.val]

\* github_recipe.rs: fetch recipe `recipe_name` from the repository
retrieve_recipe_from_github(recipe_name, recipe_repo_full_name) ==
    IF remote = "up"
    THEN Success([dir |-> "remote", file |-> recipe_name], <<"/", "tmp">>)
    ELSE Failure(Err("RemoteError", recipe_name, recipe_repo_full_name, <<>>))

\* template_recipe.rs: parse the content of a recipe file
parse_recipe_content(content, recipe_dir) ==
    IF content.dir \in RecipeDirs /\ fs[content.dir][content.file] \in ParsableKinds
    THEN [ok |-> TRUE, title |-> content, description |-> content]
    ELSE [ok |-> FALSE, title |-> NoContent, description |-> NoContent]

RecipeInfo(name, source, path, title, description) ==
    [name |-> name, source |-> source, path |-> path,
     title |-> title, description |-> description]

\* github_recipe.rs: the recipes of the repository
list_github_recipes(repo) ==
    IF remote = "up"
    THEN [ok |-> TRUE,
          recipes |->
            << RecipeInfo(<<"a">>, "GitHub", repo \o <<"/", "a">>,
                          [dir |-> "remote", file |-> <<"a">>],
                          [dir |-> "remote", file |-> <<"a">>]),
               RecipeInfo(<<"b">>, "GitHub", repo \o <<"/", "b">>,
                          [dir |-> "remote", file |-> <<"b">>],
                          [dir |-> "remote", file |-> <<"b">>]) >>]
    ELSE [ok |-> FALSE, recipes |-> <<>>]

\* What fs::read_dir yields for a physical directory: it cannot be opened, or
\* it yields its entries in some order, possibly breaking off with an I/O
\* error.  The entry d of cwd is put first: the scan skips it, so its place
\* changes nothing the scan does, nor does an error before it rather than
\* right after it.
OtherEntries(D) == IF D = "cwd" THEN << <<"d">> >> ELSE <<>>
FileEntries(D) == { f \in FileNames : fs[D][f] # "absent" }

ItemOk(n) == [ok |-> TRUE, name |-> n]
ItemErr == [ok |-> FALSE, name |-> <<>>]

Perms(S) ==
    { p \in [1..Cardinality(S) -> S] :
        \A i, j \in 1..Cardinality(S) : i # j => p[i] # p[j] }

Enumerations(first, S) ==
    LET Orders == { first \o p : p \in Perms(S) } IN
    { [i \in 1..Len(p) |-> ItemOk(p[i])] : p \in Orders }
    \cup { [i \in 1..(k + 1) |-> IF i <= k THEN ItemOk(p[i]) ELSE ItemErr] :
             p \in Orders, k \in Len(first)..(Len(first) + Cardinality(S)) }

NotOpened == [open |-> FALSE, items |-> <<>>]

ReadDirOutcomes(D) ==
    {NotOpened} \cup
    { [open |-> TRUE, items |-> e] : e \in Enumerations(OtherEntries(D), FileEntries(D)) }

----------------------------------------------------------------------------
(* Recipe Resolver *)

\* faulty variant: the base directory is the parent of the path as given
read_recipe_object_as_given(recipe_path, o) ==
    IF ~CanRead(o)
    THEN Out(Failure(Err("ReadError", <<>>, recipe_path, <<>>)),
             <<Ev("read", recipe_path, FALSE)>>)
    ELSE IF ~CanCanonicalize(o)
    THEN Out(Failure(Err("PathError", <<>>, recipe_path, <<>>)),
             <<Ev("read", recipe_path, FALSE)>>)
    ELSE IF ~HasParent(recipe_path)
         THEN Out(Failure(Err("NoParent", <<>>, recipe_path, <<>>)),
                  <<Ev("read", recipe_path, FALSE)>>)
         ELSE Out(Success(ContentOf(o), PathParent(recipe_path)),
                  <<Ev("read", recipe_path, TRUE)>>)

\* read_recipe_file, given the file system object at recipe_path
read_recipe_object(recipe_path, o) ==
    IF ~CanRead(o)
    THEN Out(Failure(Err("ReadError", <<>>, recipe_path, <<>>)),
             <<Ev("read", recipe_path, FALSE)>>)
    ELSE IF ~CanCanonicalize(o)
    THEN Out(Failure(Err("PathError", <<>>, recipe_path, <<>>)),
             <<Ev("read", recipe_path, FALSE)>>)
    ELSE LET canonical == Canonicalize(o) IN
         IF ~HasParent(canonical)
         THEN Out(Failure(Err("NoParent", <<>>, canonical, <<>>)),
                  <<Ev("read", recipe_path, FALSE)>>)
         ELSE Out(Success(ContentOf(o), PathParent(canonical)),
                  <<Ev("read", recipe_path, TRUE)>>)

read_recipe_file(recipe_path) ==
    The({ read_recipe_object(recipe_path, o) : o \in {Lookup(recipe_path)} })

RECURSIVE read_recipe_in_dir_from(_, _, _)
\* the loop of read_recipe_in_dir, from the i-th extension on
read_recipe_in_dir_from(dir, recipe_name, i) ==
    IF i > Len(RECIPE_FILE_EXTENSIONS)
    THEN Out(Failure(Err("NotFoundInDir", recipe_name, dir, <<>>)), <<>>)
    ELSE LET recipe_path ==
                 PathJoin(dir, recipe_name \o <<".", RECIPE_FILE_EXTENSIONS[i]>>)
         IN  The({ IF r.res.ok THEN r
                   ELSE The({ Out(rest.res, r.tr \o rest.tr) :
                              rest \in {read_recipe_in_dir_from(dir, recipe_name, i + 1)} }) :
                   r \in {read_recipe_file(recipe_path)} })

RECURSIVE read_recipe_in_dir_down(_, _, _)
read_recipe_in_dir_down(dir, recipe_name, i) ==
    IF i < 1
    THEN Out(Failure(Err("NotFoundInDir", recipe_name, dir, <<>>)), <<>>)
    ELSE LET recipe_path ==
                 PathJoin(dir, recipe_name \o <<".", RECIPE_FILE_EXTENSIONS[i]>>)
         IN  The({ IF r.res.ok THEN r
                   ELSE The({ Out(rest.res, r.tr \o rest.tr) :
                              rest \in {read_recipe_in_dir_down(dir, recipe_name, i - 1)} }) :
                   r \in {read_recipe_file(recipe_path)} })

\* faulty variant: only the first recognized extension is tried
read_recipe_in_dir_first_extension(dir, recipe_name) ==
    The({ Out(IF r.res.ok THEN r.res
              ELSE Failure(Err("NotFoundInDir", recipe_name, dir, <<>>)),
              Append(r.tr, Ev("find", dir, r.res.ok))) :
          r \in {read_recipe_file(
                    PathJoin(dir, recipe_name \o <<".", RECIPE_FILE_EXTENSIONS[1]>>))} })

RECURSIVE read_recipe_in_dir_stop(_, _, _)
read_recipe_in_dir_stop(dir, recipe_name, i) ==
    IF i > Len(RECIPE_FILE_EXTENSIONS)
    THEN Out(Failure(Err("NotFoundInDir", recipe_name, dir, <<>>)), <<>>)
    ELSE LET recipe_path ==
                 PathJoin(dir, recipe_name \o <<".", RECIPE_FILE_EXTENSIONS[i]>>)
         IN  The({ IF r.res.ok \/ Exists(recipe_path) THEN r
                   ELSE The({ Out(rest.res, r.tr \o rest.tr) :
                              rest \in {read_recipe_in_dir_stop(dir, recipe_name, i + 1)} }) :
                   r \in {read_recipe_file(recipe_path)} })

\* faulty variant: a candidate that exists and cannot be read ends the search
\* of the directory with its error
read_recipe_in_dir_hard(dir, recipe_name) ==
    The({ Out(o.res, Append(o.tr, Ev("find", dir, o.res.ok))) :
          o \in {read_recipe_in_dir_stop(dir, recipe_name, 1)} })

\* faulty variant: the extensions are tried from the last to the first
read_recipe_in_dir_reversed(dir, recipe_name) ==
    The({ Out(o.res, Append(o.tr, Ev("find", dir, o.res.ok))) :
          o \in {read_recipe_in_dir_down(dir, recipe_name, Len(RECIPE_FILE_EXTENSIONS))} })

read_recipe_in_dir(dir, recipe_name) ==
    The({ Out(o.res, Append(o.tr, Ev("find", dir, o.res.ok))) :
          o \in {read_recipe_in_dir_from(dir, recipe_name, 1)} })

\* the Search Directory List as retrieve_recipe_from_local_path builds it
path_separator == ":"
search_dirs ==
    <<  <<".">>  >> \o
    (IF env_var.ok THEN Split(env_var.val, path_separator) ELSE <<>>)

RECURSIVE search_from_last_dir(_, _, _)
\* faulty variant: the error names only the directory tried last
search_from_last_dir(dirs, recipe_name, i) ==
    IF i > Len(dirs)
    THEN Out(Failure(Err("NotFound", recipe_name, <<>>, dirs[Len(dirs)])), <<>>)
    ELSE The({ IF r.res.ok THEN r
               ELSE The({ Out(rest.res, r.tr \o rest.tr) :
                          rest \in {search_from_last_dir(dirs, recipe_name, i + 1)} }) :
               r \in {read_recipe_in_dir(dirs[i], recipe_name)} })

RECURSIVE search_from(_, _, _)
\* the loop over search_dirs, from the i-th directory on
search_from(dirs, recipe_name, i) ==
    IF i > Len(dirs)
    THEN Out(Failure(Err("NotFound", recipe_name, <<>>, Join(dirs, ":"))), <<>>)
    ELSE The({ IF r.res.ok THEN r
               ELSE The({ Out(rest.res, r.tr \o rest.tr) :
                          rest \in {search_from(dirs, recipe_name, i + 1)} }) :
               r \in {read_recipe_in_dir(dirs[i], recipe_name)} })

RECURSIVE search_keep_last(_, _, _, _)
search_keep_last(dirs, recipe_name, i, best) ==
    IF i > Len(dirs) THEN best
    ELSE The({ search_keep_last(dirs, recipe_name, i + 1,
                                Out(IF r.res.ok THEN r.res ELSE best.res,
                                    best.tr \o r.tr)) :
               r \in {read_recipe_in_dir(dirs[i], recipe_name)} })

\* faulty variant: the loop does not return at the first match, so the last match wins
retrieve_recipe_from_local_path_last(recipe_name) ==
    search_keep_last(search_dirs, recipe_name, 1,
        Out(Failure(Err("NotFound", recipe_name, <<>>, Join(search_dirs, ":"))), <<>>))

retrieve_recipe_from_local_path(recipe_name) ==
    search_from(search_dirs, recipe_name, 1)

\* faulty variant: a lookup that fails falls back to a repository
configured_github_recipe_repo_default ==
    LET p == get_param IN
    [some |-> ~p.ok \/ p.some, val |-> p.val]

\* faulty variant: a configuration without the key counts as a configured repository
configured_github_recipe_repo_unset ==
    LET p == get_param IN
    [some |-> p.ok, val |-> p.val]

configured_github_recipe_repo ==
    LET p == get_param IN
    [some |-> p.ok /\ p.some, val |-> p.val]

\* faulty variant: only the first recognized extension marks a direct path
is_direct_path_first_only(recipe_name) ==
    EndsWith(recipe_name, <<".", RECIPE_FILE_EXTENSIONS[1]>>)

\* the identifier ends in "." and a recognized extension
is_direct_path(recipe_name) ==
    \E i \in 1..Len(RECIPE_FILE_EXTENSIONS) :
        EndsWith(recipe_name, <<".", RECIPE_FILE_EXTENSIONS[i]>>)

\* faulty variant: when the fetch fails the error of the local search is returned
or_else_github_local_error(recipe_name, loc) ==
    IF loc.res.ok THEN loc
    ELSE LET repo == configured_github_recipe_repo IN
         IF repo.some
         THEN LET g == retrieve_recipe_from_github(recipe_name, repo.val)
              IN  Out(IF g.ok THEN g ELSE loc.res,
                      loc.tr \o <<Ev("config", <<>>, TRUE),
                                  Ev("fetch", recipe_name, g.ok)>>)
         ELSE Out(loc.res, Append(loc.tr, Ev("config", <<>>, FALSE)))

\* the closure of retrieve_recipe_file's or_else, given the local outcome
or_else_github(recipe_name, loc) ==
    IF loc.res.ok THEN loc
    ELSE LET repo == configured_github_recipe_repo IN
         IF repo.some
         THEN LET g == retrieve_recipe_from_github(recipe_name, repo.val)
              IN  Out(g, loc.tr \o <<Ev("config", <<>>, TRUE),
                                     Ev("fetch", recipe_name, g.ok)>>)
         ELSE Out(loc.res, Append(loc.tr, Ev("config", <<>>, FALSE)))

\* faulty variant: a configured repository is asked before the local directories
retrieve_recipe_file_remote_first(recipe_name) ==
    IF is_direct_path(recipe_name) THEN read_recipe_file(recipe_name)
    ELSE LET repo == configured_github_recipe_repo IN
         IF repo.some
         THEN The({ IF g.ok
                    THEN Out(g, <<Ev("config", <<>>, TRUE), Ev("fetch", recipe_name, TRUE)>>)
                    ELSE The({ Out(loc.res,
                                   <<Ev("config", <<>>, TRUE),
                                     Ev("fetch", recipe_name, FALSE)>> \o loc.tr) :
                               loc \in {retrieve_recipe_from_local_path(recipe_name)} }) :
                    g \in {retrieve_recipe_from_github(recipe_name, repo.val)} })
         ELSE The({ Out(loc.res, Append(loc.tr, Ev("config", <<>>, FALSE))) :
                    loc \in {retrieve_recipe_from_local_path(recipe_name)} })

retrieve_recipe_file(recipe_name) ==
    IF is_direct_path(recipe_name) THEN read_recipe_file(recipe_name)
    ELSE The({ or_else_github(recipe_name, loc) :
               loc \in {retrieve_recipe_from_local_path(recipe_name)} })

----------------------------------------------------------------------------
(* Recipe Catalog Builder.  scanned[i] is what scan_directory_for_recipes   *)
(* returns for the i-th search directory: that depends on what              *)
(* fs::read_dir yields when the directory is enumerated.                    *)

\* create_local_recipe_info, given the file system object at path
local_recipe_info(path, o) ==
    IF ~CanRead(o) THEN [ok |-> FALSE, info |-> <<>>]
    ELSE LET content == ContentOf(o)
             recipe_dir == IF HasParent(path) THEN PathParent(path) ELSE <<".">>
             recipe == parse_recipe_content(content, recipe_dir)
         IN  IF ~recipe.ok THEN [ok |-> FALSE, info |-> <<>>]
             ELSE [ok |-> TRUE,
                   info |-> << RecipeInfo(FileStem(path), "Local", path,
                                          recipe.title, recipe.description) >>]

create_local_recipe_info(path) ==
    The({ local_recipe_info(path, o) : o \in {Lookup(path)} })

\* the extension is one of RECIPE_FILE_EXTENSIONS
is_recipe_extension(path) ==
    /\ HasExtension(path)
    /\ \E i \in 1..Len(RECIPE_FILE_EXTENSIONS) :
           Extension(path) = <<RECIPE_FILE_EXTENSIONS[i]>>

ScanOut(ok, recipes, tr) == [ok |-> ok, recipes |-> recipes, tr |-> tr]

RECURSIVE scan_entries(_, _, _, _, _)
\* the loop over the entries of read_dir(dir), from the i-th entry on, with
\* the recipes pushed and the steps taken so far
scan_entries(dir, items, i, recipes, tr) ==
    IF i > Len(items) THEN ScanOut(TRUE, recipes, tr)
    ELSE IF ~items[i].ok THEN ScanOut(FALSE, <<>>, Append(tr, Ev("entry", dir, FALSE)))
    ELSE LET path == PathJoin(dir, items[i].name) IN
         IF IsFile(path) /\ is_recipe_extension(path)
         THEN The({ scan_entries(dir, items, i + 1, recipes \o b.info,
                                 Append(tr, Ev("build", path, b.ok))) :
                    b \in {create_local_recipe_info(path)} })
         ELSE scan_entries(dir, items, i + 1, recipes, tr)

RECURSIVE scan_entries_abort(_, _, _, _, _)
scan_entries_abort(dir, items, i, recipes, tr) ==
    IF i > Len(items) THEN ScanOut(TRUE, recipes, tr)
    ELSE IF ~items[i].ok THEN ScanOut(FALSE, <<>>, Append(tr, Ev("entry", dir, FALSE)))
    ELSE LET path == PathJoin(dir, items[i].name) IN
         IF IsFile(path) /\ is_recipe_extension(path)
         THEN The({ IF b.ok
                    THEN scan_entries_abort(dir, items, i + 1, recipes \o b.info,
                                            Append(tr, Ev("build", path, TRUE)))
                    ELSE ScanOut(FALSE, <<>>, Append(tr, Ev("build", path, FALSE))) :
                    b \in {create_local_recipe_info(path)} })
         ELSE scan_entries_abort(dir, items, i + 1, recipes, tr)

\* faulty variant: a file whose entry cannot be built fails the scan of its directory
scan_directory_for_recipes_abort(dir, read_dir) ==
    IF ~Exists(dir) \/ ~IsDir(dir)
    THEN ScanOut(TRUE, <<>>, <<Ev("scan", dir, TRUE)>>)
    ELSE IF ~read_dir.open
    THEN ScanOut(FALSE, <<>>, <<Ev("read_dir", dir, FALSE), Ev("scan", dir, FALSE)>>)
    ELSE The({ ScanOut(r.ok, r.recipes, Append(r.tr, Ev("scan", dir, r.ok))) :
               r \in {scan_entries_abort(dir, read_dir.items, 1, <<>>,
                                         <<Ev("read_dir", dir, TRUE)>>)} })

\* read_dir is what fs::read_dir(dir) yields
scan_directory_for_recipes(dir, read_dir) ==
    IF ~Exists(dir) \/ ~IsDir(dir)
    THEN ScanOut(TRUE, <<>>, <<Ev("scan", dir, TRUE)>>)
    ELSE IF ~read_dir.open
    THEN ScanOut(FALSE, <<>>, <<Ev("read_dir", dir, FALSE), Ev("scan", dir, FALSE)>>)
    ELSE The({ ScanOut(r.ok, r.recipes, Append(r.tr, Ev("scan", dir, r.ok))) :
               r \in {scan_entries(dir, read_dir.items, 1, <<>>,
                                   <<Ev("read_dir", dir, TRUE)>>)} })

RECURSIVE WithoutRepeats(_, _)
WithoutRepeats(dirs, seen) ==
    IF dirs = <<>> THEN <<>>
    ELSE IF Head(dirs) \in seen THEN WithoutRepeats(Tail(dirs), seen)
    ELSE <<Head(dirs)>> \o WithoutRepeats(Tail(dirs), seen \cup {Head(dirs)})

\* faulty variant: a directory that is already in the list is not added again
discover_search_dirs_distinct ==
    WithoutRepeats(
        <<  <<".">>  >> \o (IF env_var.ok THEN Split(env_var.val, ":") ELSE <<>>),
        {})

\* faulty variant: only the pieces that name an existing directory are kept
discover_search_dirs_existing ==
    <<  <<".">>  >> \o
    (IF env_var.ok
     THEN SelectSeq(Split(env_var.val, ":"), LAMBDA dir : IsDir(dir))
     ELSE <<>>)

\* the Search Directory List as discover_local_recipes builds it
discover_path_separator == ":"
discover_search_dirs ==
    <<  <<".">>  >> \o
    (IF env_var.ok THEN Split(env_var.val, discover_path_separator) ELSE <<>>)

RECURSIVE discover_from(_, _, _, _, _)
\* the loop over the search directories, from the i-th directory on, with the
\* recipes collected and the steps taken so far
discover_from(dirs, scanned, i, recipes, tr) ==
    IF i > Len(dirs) THEN ScanOut(TRUE, recipes, tr)
    ELSE discover_from(dirs, scanned, i + 1,
                       IF scanned[i].ok THEN recipes \o scanned[i].recipes ELSE recipes,
                       tr \o scanned[i].tr)

RECURSIVE FirstOfEachName(_, _)
FirstOfEachName(recipes, seen) ==
    IF recipes = <<>> THEN <<>>
    ELSE IF Head(recipes).name \in seen THEN FirstOfEachName(Tail(recipes), seen)
    ELSE <<Head(recipes)>> \o
         FirstOfEachName(Tail(recipes), seen \cup {Head(recipes).name})

\* faulty variant: of the recipes with one name only the first is kept
discover_local_recipes_dedup(scanned) ==
    The({ ScanOut(r.ok, FirstOfEachName(r.recipes, {}), r.tr) :
          r \in {discover_from(discover_search_dirs, scanned, 1, <<>>, <<>>)} })

discover_local_recipes(scanned) ==
    discover_from(discover_search_dirs, scanned, 1, <<>>, <<>>)

\* faulty variant: a failure of the remote list fails the listing
list_after_local_strict(loc) ==
    LET local_recipes == IF loc.ok THEN loc.recipes ELSE <<>>
        repo == configured_github_recipe_repo
    IN  IF repo.some
        THEN LET g == list_github_recipes(repo.val) IN
             ScanOut(g.ok,
                     IF g.ok THEN local_recipes \o g.recipes ELSE <<>>,
                     loc.tr \o <<Ev("config", <<>>, TRUE),
                                 Ev("remote_list", repo.val, g.ok)>>)
        ELSE ScanOut(TRUE, local_recipes, loc.tr \o <<Ev("config", <<>>, FALSE)>>)

list_after_local(loc) ==
    LET local_recipes == IF loc.ok THEN loc.recipes ELSE <<>>
        repo == configured_github_recipe_repo
    IN  IF repo.some
        THEN LET g == list_github_recipes(repo.val) IN
             ScanOut(TRUE,
                     local_recipes \o (IF g.ok THEN g.recipes ELSE <<>>),
                     loc.tr \o <<Ev("config", <<>>, TRUE),
                                 Ev("remote_list", repo.val, g.ok)>>)
        ELSE ScanOut(TRUE, local_recipes, loc.tr \o <<Ev("config", <<>>, FALSE)>>)

list_available_recipes(scanned) ==
    The({ list_after_local(loc) : loc \in {discover_local_recipes(scanned)} })

----------------------------------------------------------------------------
(* Recipe commands (commands/recipe.rs).  Texts handled by the deep-link   *)
(* encoder are sequences of character codes (ASCII).                        *)

\* the characters a recipe title is made of: a  "  >  ?
TitleChars == {97, 34, 62, 63}

Titles == UNION { [1..n -> TitleChars] : n \in 0..MaxTitleLen }

\* a parsed recipe
Recipes == [title : Titles]

NoRecipe == [title |-> <<>>]

Loaded(recipe) == [ok |-> TRUE, recipe |-> recipe, err |-> NoErr]

LoadFailed(e) == [ok |-> FALSE, recipe |-> NoRecipe, err |-> e]

NoLoad == LoadFailed(NoErr)

\* template_recipe.rs: what parsing and validating the retrieved content of
\* recipe_name gives; the recipe a file holds is any of Recipes, a remote
\* content may also be invalid
ParseOutcomes(recipe_name, content) ==
    LET parsed == { Loaded(recipe) : recipe \in Recipes }
        invalid == { LoadFailed(Err("ValidationError", recipe_name, <<>>, <<>>)) }
    IN  IF content.dir \in RecipeDirs
        THEN IF parse_recipe_content(content, <<>>).ok THEN parsed ELSE invalid
        ELSE parsed \cup invalid

\* recipes/recipe.rs: the recipe is retrieved by retrieve_recipe_file, then
\* parsed and validated
load_recipe(recipe_name, retrieved, parsed) ==
    IF ~retrieved.ok THEN LoadFailed(retrieved.err)
    ELSE parsed

\* "goose://recipe?config="
DeeplinkPrefix ==
    <<103, 111, 111, 115, 101, 58, 47, 47, 114, 101, 99, 105, 112, 101, 63,
      99, 111, 110, 102, 105, 103, 61>>

RECURSIVE JsonEscape(_)
\* serde_json: in a string, the characters " and \ are escaped with \
JsonEscape(text) ==
    IF text = <<>> THEN <<>>
    ELSE (IF Head(text) \in {34, 92} THEN <<92, Head(text)>> ELSE <<Head(text)>>)
         \o JsonEscape(Tail(text))

\* the JSON text of a recipe: {"title":"..."}
RecipeJson(recipe) ==
    <<123, 34, 116, 105, 116, 108, 101, 34, 58, 34>>
    \o JsonEscape(recipe.title) \o <<34, 125>>

\* serde_json::to_string(&recipe): the JSON text, or an error
to_string(recipe) ==
    { [ok |-> TRUE, val |-> RecipeJson(recipe)], [ok |-> FALSE, val |-> <<>>] }

\* the base64 alphabet: A-Z a-z 0-9 + /
Base64Char(i) ==
    IF i < 26 THEN 65 + i
    ELSE IF i < 52 THEN 97 + (i - 26)
    ELSE IF i < 62 THEN 48 + (i - 52)
    ELSE IF i = 62 THEN 43 ELSE 47

RECURSIVE Base64Encode(_)
\* base64 STANDARD.encode: three bytes give four characters, the last group
\* is padded with "="
Base64Encode(bytes) ==
    IF bytes = <<>> THEN <<>>
    ELSE IF Len(bytes) = 1
    THEN << Base64Char(bytes[1] \div 4), Base64Char((bytes[1] % 4) * 16), 61, 61 >>
    ELSE IF Len(bytes) = 2
    THEN << Base64Char(bytes[1] \div 4),
            Base64Char((bytes[1] % 4) * 16 + bytes[2] \div 16),
            Base64Char((bytes[2] % 16) * 4), 61 >>
    ELSE << Base64Char(bytes[1] \div 4),
            Base64Char((bytes[1] % 4) * 16 + bytes[2] \div 16),
            Base64Char((bytes[2] % 16) * 4 + bytes[3] \div 64),
            Base64Char(bytes[3] % 64) >>
         \o Base64Encode(SubSeq(bytes, 4, Len(bytes)))

\* characters urlencoding::encode leaves as they are: A-Z a-z 0-9 - _ . ~
Unreserved(c) ==
    \/ c \in 65..90
    \/ c \in 97..122
    \/ c \in 48..57
    \/ c \in {45, 95, 46, 126}

HexDigit(d) == IF d < 10 THEN 48 + d ELSE 55 + d

RECURSIVE UrlEncode(_)
\* urlencoding::encode: every other character becomes %XX
UrlEncode(text) ==
    IF text = <<>> THEN <<>>
    ELSE (IF Unreserved(Head(text)) THEN <<Head(text)>>
          ELSE <<37, HexDigit(Head(text) \div 16), HexDigit(Head(text) % 16)>>)
         \o UrlEncode(Tail(text))

CommandOk(url) == [ok |-> TRUE, url |-> url, err |-> NoErr]

CommandErr(e) == [ok |-> FALSE, url |-> <<>>, err |-> e]

NoCommand == [ok |-> FALSE, url |-> <<>>, err |-> NoErr]

\* handle_validate, given what load_recipe returns
handle_validate(recipe) ==
    IF recipe.ok THEN CommandOk(<<>>) ELSE CommandErr(recipe.err)

\* faulty variant: a failed load is reported as an encoding error
handle_deeplink_generic_error(recipe, recipe_json) ==
    IF recipe.ok
    THEN IF recipe_json.ok
         THEN CommandOk(DeeplinkPrefix \o UrlEncode(Base64Encode(recipe_json.val)))
         ELSE CommandOk(<<>>)
    ELSE CommandErr(Err("EncodingError", <<>>, <<>>, <<>>))

\* handle_deeplink, given what load_recipe and serde_json::to_string return
handle_deeplink(recipe, recipe_json) ==
    IF recipe.ok
    THEN IF recipe_json.ok
         THEN CommandOk(DeeplinkPrefix \o UrlEncode(Base64Encode(recipe_json.val)))
         ELSE CommandOk(<<>>)
    ELSE CommandErr(recipe.err)

----------------------------------------------------------------------------
(* The state machine *)

\* the outcomes fs::read_dir can have on the search directory; a path that is
\* no directory is never enumerated
OutcomesFor(dir) ==
    IF IsDir(dir) THEN ReadDirOutcomes(Lookup(dir).dir) ELSE {NotOpened}

\* what scan_directory_for_recipes can return for the search directory
ScanOutcomes(dir) ==
    { scan_directory_for_recipes(dir, read_dir) : read_dir \in OutcomesFor(dir) }

RECURSIVE ScansOf(_, _)
\* what the scans of the search directories from the i-th on can return
ScansOf(dirs, i) ==
    IF i > Len(dirs) THEN { <<>> }
    ELSE { <<r>> \o rest : r \in ScanOutcomes(dirs[i]), rest \in ScansOf(dirs, i + 1) }

NoListing == [ok |-> FALSE, recipes |-> <<>>]

\* the values GOOSE_RECIPE_PATH is set to: the directory names joined by ":"
EnvValues == { Join(names, ":") : names \in EnvDirLists }

\* the files that exist in the recipe directories
Present(fsys) ==
    { x \in RecipeDirs \X FileNames : fsys[x[1]][x[2]] # "absent" }

\* the kinds of file that differ for the listing, which never canonicalizes
ListKinds == Kinds \ {"nocanon"}

\* the worlds whose files are of the given kinds, before any call
InitWorld(kinds) ==
    /\ dKind \in {"dir", "file"}
    /\ fs \in [RecipeDirs -> [FileNames -> kinds]]
    /\ Cardinality(Present(fs)) <= MaxFiles
    /\ dKind = "file" => \A f \in FileNames : fs["d"][f] = "absent"
    /\ env \in [state : {"set"}, val : EnvValues]
               \cup [state : {"unset", "invalid"}, val : {<<>>}]
    /\ config \in {"some", "none", "err"}
    /\ remote \in {"up", "down"}
    /\ op = [name |-> "none", arg |-> <<>>]
    /\ ret = NoResult
    /\ listed = NoListing
    /\ trace = <<>>

Init == InitWorld(Kinds) /\ loaded = NoLoad /\ cmd = NoCommand

InitList == InitWorld(ListKinds) /\ loaded = NoLoad /\ cmd = NoCommand

\* the commands run in a directory without GOOSE_RECIPE_PATH, where "d" is
\* no directory
InitCommand ==
    /\ InitWorld(Kinds)
    /\ env.state = "unset"
    /\ dKind = "file"
    /\ loaded = NoLoad
    /\ cmd = NoCommand

RetrieveRecipeFile(id) ==
    /\ op.name = "none"
    /\ \E o \in {retrieve_recipe_file(id)} :
        /\ op' = [name |-> "retrieve", arg |-> id]
        /\ ret' = o.res
        /\ trace' = o.tr
        /\ listed' = NoListing
        /\ UNCHANGED <<world, loaded, cmd>>

ListAvailableRecipes ==
    /\ op.name = "none"
    /\ \E scanned \in ScansOf(discover_search_dirs, 1) :
        \E o \in {list_available_recipes(scanned)} :
        /\ op' = [name |-> "list", arg |-> <<>>]
        /\ listed' = [ok |-> o.ok, recipes |-> o.recipes]
        /\ trace' = o.tr
        /\ ret' = NoResult
        /\ UNCHANGED <<world, loaded, cmd>>

HandleValidate(recipe_name) ==
    /\ op.name = "none"
    /\ \E r \in {retrieve_recipe_file(recipe_name)} :
        \E parsed \in ParseOutcomes(recipe_name, r.res.content) :
        \E recipe \in {load_recipe(recipe_name, r.res, parsed)} :
        /\ op' = [name |-> "validate", arg |-> recipe_name]
        /\ loaded' = recipe
        /\ cmd' = handle_validate(recipe)
        /\ trace' = r.tr
        /\ UNCHANGED <<world, ret, listed>>

HandleDeeplink(recipe_name) ==
    /\ op.name = "none"
    /\ \E r \in {retrieve_recipe_file(recipe_name)} :
        \E parsed \in ParseOutcomes(recipe_name, r.res.content) :
        \E recipe \in {load_recipe(recipe_name, r.res, parsed)} :
        \E recipe_json \in (IF recipe.ok THEN to_string(recipe.recipe)
                            ELSE {[ok |-> FALSE, val |-> <<>>]}) :
        /\ op' = [name |-> "deeplink", arg |-> recipe_name]
        /\ loaded' = recipe
        /\ cmd' = handle_deeplink(recipe, recipe_json)
        /\ trace' = r.tr
        /\ UNCHANGED <<world, ret, listed>>

\* the call returns and the command ends; the next command starts afresh
Return ==
    /\ op.name # "none"
    /\ op' = [name |-> "none", arg |-> <<>>]
    /\ ret' = NoResult
    /\ listed' = NoListing
    /\ trace' = <<>>
    /\ loaded' = NoLoad
    /\ cmd' = NoCommand
    /\ UNCHANGED world

\* recipes are resolved
Next ==
    \/ \E id \in Identifiers : RetrieveRecipeFile(id)
    \/ Return

Spec == Init /\ [][Next]_vars

\* recipes are listed
NextList ==
    \/ ListAvailableRecipes
    \/ Return

SpecList == InitList /\ [][NextList]_vars

\* recipes are validated and turned into deep links
NextCommand ==
    \/ \E recipe_name \in Identifiers : HandleValidate(recipe_name)
    \/ \E recipe_name \in Identifiers : HandleDeeplink(recipe_name)
    \/ Return

SpecCommand == InitCommand /\ [][NextCommand]_vars

\* recipes are resolved and listed
NextBoth ==
    \/ \E id \in Identifiers : RetrieveRecipeFile(id)
    \/ ListAvailableRecipes
    \/ Return

SpecBoth == InitList /\ [][NextBoth]_vars

\* recipes are listed, among files of every kind
SpecAgree == Init /\ [][NextList]_vars

----------------------------------------------------------------------------
(* Vocabulary of the properties *)

Range(s) == { s[i] : i \in 1..Len(s) }

\* the identifier ends in "." followed by a recognized extension
DirectForm(id) ==
    /\ Len(id) >= 2
    /\ id[Len(id) - 1] = "."
    /\ id[Len(id)] \in Range(RECIPE_FILE_EXTENSIONS)

Retrieved == op.name = "retrieve"
RetrievedBare == Retrieved /\ ~DirectForm(op.arg)
Listed == op.name = "list"

\* the Search Directory List: the current directory, then the pieces of
\* GOOSE_RECIPE_PATH from left to right
SearchDirectoryList ==
    IF env.state = "set" THEN << <<".">> >> \o Split(env.val, ":") ELSE << <<".">> >>

\* the candidate dir/name.ext
Candidate(dir, name, ext) == PathJoin(dir, name \o <<".", ext>>)

\* the candidate is a file that read_recipe_file reads: its content is text
\* and its canonical parent is known
Matchable(path) == KindOf(Lookup(path)) \in {"valid", "malformed"}

\* find-by-name succeeds in the directory
HasMatch(dir, name) ==
    \E e \in Range(RECIPE_FILE_EXTENSIONS) : Matchable(Candidate(dir, name, e))

\* some search directory has a match for the name
LocalMatch(name) ==
    \E i \in 1..Len(SearchDirectoryList) : HasMatch(SearchDirectoryList[i], name)

\* the first search directory with a match, when there is one
FirstMatch(name) ==
    CHOOSE i \in 1..Len(SearchDirectoryList) :
        /\ HasMatch(SearchDirectoryList[i], name)
        /\ \A k \in 1..(i - 1) : ~HasMatch(SearchDirectoryList[k], name)

EventsOf(kind) == SelectSeq(trace, LAMBDA e : e.ev = kind)

\* the find-by-name attempts of the call, in order
Finds == EventsOf("find")

\* the physical directory a search directory stands for when a candidate in
\* it is opened
PhysicalDir(dir) == Lookup(PathJoin(dir, <<".">>)).dir

RECURSIVE ScansFrom(_, _, _)
\* the scans of the listing from its k-th step on, after the scans `done` and
\* the steps `steps` of the scan under way
ScansFrom(k, steps, done) ==
    IF k > Len(trace) THEN done
    ELSE IF trace[k].ev = "scan"
    THEN ScansFrom(k + 1, <<>>,
                   Append(done, [dir |-> trace[k].path, ok |-> trace[k].ok,
                                 steps |-> steps]))
    ELSE ScansFrom(k + 1, Append(steps, trace[k]), done)

\* the scans of the listing, in order, one per search directory: the
\* directory, whether the scan succeeded, and its steps
Scans == ScansFrom(1, <<>>, <<>>)

\* the directory of the scan was opened and enumerated to its end without an
\* I/O error
Enumerated(scan) ==
    /\ Ev("read_dir", scan.dir, TRUE) \in Range(scan.steps)
    /\ \A k \in 1..Len(scan.steps) : scan.steps[k].ev # "entry"

\* the files the scan built an entry for, in the order it met them
Built(scan) ==
    LET b == SelectSeq(scan.steps, LAMBDA e : e.ev = "build" /\ e.ok)
    IN  [i \in 1..Len(b) |-> b[i].path]

\* what the scan contributes: the entries it built, when it succeeded
Segment(scan) == IF scan.ok THEN Built(scan) ELSE <<>>

RECURSIVE Segments(_)
\* what the scans contribute, one after the other
Segments(scans) ==
    IF scans = <<>> THEN <<>> ELSE Segment(Head(scans)) \o Segments(Tail(scans))

\* the direct child files of the search directory that have a recognized
\* extension, each with its kind; none when the path is no directory
DirFiles(dir) ==
    The({ IF o.type # "dir" THEN {}
          ELSE { [path |-> PathJoin(dir, f), kind |-> fs[o.dir][f]] :
                   f \in { g \in FileNames : fs[o.dir][g] # "absent" } } :
          o \in {Lookup(dir)} })

\* the recipe files of each search directory, in Search Directory List order
SearchedFiles ==
    [j \in 1..Len(SearchDirectoryList) |-> DirFiles(SearchDirectoryList[j])]

\* the file's content can be read and parses as a recipe
Parses(file) == file.kind \in {"valid", "nocanon"}

Paths(files) == { x.path : x \in files }

\* the Local entry of a recipe file
LocalEntry(path) ==
    [name |-> FileStem(path), source |-> "Local", path |-> path,
     title |-> ContentOf(Lookup(path)), description |-> ContentOf(Lookup(path))]

EntriesOf(paths) == [i \in 1..Len(paths) |-> LocalEntry(paths[i])]

LocalEntries == SelectSeq(listed.recipes, LAMBDA r : r.source = "Local")
RemoteEntries == SelectSeq(listed.recipes, LAMBDA r : r.source = "GitHub")

\* how many Local entries of the listing are for the file
Occurrences(path) ==
    Cardinality({ i \in 1..Len(listed.recipes) :
                    listed.recipes[i].source = "Local" /\ listed.recipes[i].path = path })

----------------------------------------------------------------------------
(* C1 *)

\* C1: for a bare name, the result is the match of the first directory of the
\* Search Directory List in which find-by-name succeeds: the search stops at
\* that directory, no later directory is tried, and content and base directory
\* are those of the file found there; a name matched in the current directory
\* resolves to the current directory's file whatever later directories hold.
C1_FirstDirectoryWins ==
    (RetrievedBare /\ LocalMatch(op.arg)) =>
        LET i == FirstMatch(op.arg)
            dir == SearchDirectoryList[i]
        IN  /\ ret.ok
            /\ Len(Finds) = i
            /\ \A k \in 1..i : Finds[k].path = SearchDirectoryList[k]
                               /\ Finds[k].ok = (k = i)
            /\ ret.content.dir = PhysicalDir(dir)
            /\ \E e \in Range(RECIPE_FILE_EXTENSIONS) :
                   /\ Matchable(Candidate(dir, op.arg, e))
                   /\ ret.content = ContentOf(Lookup(Candidate(dir, op.arg, e)))
            /\ ret.base = CanonDir(PhysicalDir(dir))
            /\ (HasMatch(<<".">>, op.arg) => ret.content.dir = "cwd")

\* the name is matched in the current directory and in the later directory d,
\* and the call returned the current directory's file
C1_Witness ==
    /\ RetrievedBare
    /\ Len(SearchDirectoryList) >= 2
    /\ HasMatch(<<".">>, op.arg)
    /\ HasMatch(<<"d">>, op.arg)
    /\ SearchDirectoryList[2] = <<"d">>
    /\ ret.ok
    /\ ret.content.dir = "cwd"

----------------------------------------------------------------------------
(* C2 *)

Fetches == EventsOf("fetch")

\* the steps of the call before its k-th step
Before(k) == SubSeq(trace, 1, k - 1)

\* C2: for a bare name, the remote fetch happens only after find-by-name has
\* been tried and has failed in every directory of the Search Directory List,
\* in order; when some search directory has a match the call returns that local
\* file and neither the configuration nor the remote repository is consulted,
\* whatever the remote repository holds.
C2_RemoteOnlyAfterLocal ==
    RetrievedBare =>
        /\ \A k \in 1..Len(trace) :
              trace[k].ev = "fetch" =>
                LET tried == SelectSeq(Before(k), LAMBDA e : e.ev = "find") IN
                /\ Len(tried) = Len(SearchDirectoryList)
                /\ \A j \in 1..Len(tried) :
                      tried[j].path = SearchDirectoryList[j] /\ ~tried[j].ok
                /\ \A j \in 1..(k - 1) : trace[j].ev # "fetch"
        /\ LocalMatch(op.arg) =>
              /\ Fetches = <<>>
              /\ EventsOf("config") = <<>>
              /\ ret.ok
              /\ ret.content.dir \in RecipeDirs

\* a repository is configured and would serve the name, a search directory
\* after the first has a match, and the call returned the local file
C2_Witness ==
    /\ RetrievedBare
    /\ config = "some"
    /\ remote = "up"
    /\ ~HasMatch(<<".">>, op.arg)
    /\ LocalMatch(op.arg)
    /\ ret.ok
    /\ ret.content.dir = "d"
    /\ Fetches = <<>>

----------------------------------------------------------------------------
(* C3 *)

FirstExtension == RECIPE_FILE_EXTENSIONS[1]

\* files of both extensions can be read for the name in the directory
BothMatch(dir, name) ==
    \A e \in Range(RECIPE_FILE_EXTENSIONS) : Matchable(Candidate(dir, name, e))

\* C3: when the directory that decides a bare name holds readable files of both
\* recognized extensions, the call returns the file with the first extension
\* of the recognized order, after reading that candidate alone in that
\* directory; the file returned is fixed by the file system state, so every
\* call on that state returns it.
C3_FirstExtensionWins ==
    (RetrievedBare /\ LocalMatch(op.arg)) =>
        LET dir == SearchDirectoryList[FirstMatch(op.arg)] IN
        BothMatch(dir, op.arg) =>
            /\ ret.ok
            /\ ret.content =
                 ContentOf(Lookup(Candidate(dir, op.arg, FirstExtension)))
            /\ ret.content.file = op.arg \o <<".", FirstExtension>>
            /\ Last(EventsOf("read")).path = Candidate(dir, op.arg, FirstExtension)

\* both a.yaml and a.json are readable in the current directory and the call
\* for a returned the file of the first extension
C3_Witness ==
    /\ RetrievedBare
    /\ BothMatch(<<".">>, op.arg)
    /\ ret.ok
    /\ ret.content = [dir |-> "cwd", file |-> op.arg \o <<".", FirstExtension>>]

----------------------------------------------------------------------------
(* C4 *)

\* C4: an identifier ending in "." and a recognized extension is read as the
\* literal path and nothing else is done: no search directory is tried, the
\* configuration is not looked up and nothing is fetched; the call succeeds
\* exactly when that path can be read and canonicalized, with that file's
\* content, and otherwise fails with the read or path error for that path,
\* never with the NotFound error that lists the search directories.
C4_DirectPathIsTerminal ==
    (Retrieved /\ DirectForm(op.arg)) =>
        /\ Len(trace) = 1
        /\ trace[1].ev = "read"
        /\ trace[1].path = op.arg
        /\ ret.ok = Matchable(op.arg)
        /\ ret.ok => ret.content = ContentOf(Lookup(op.arg))
        /\ ~ret.ok =>
              /\ ret.err.kind \in {"ReadError", "PathError"}
              /\ ret.err.kind = "PathError" <=> KindOf(Lookup(op.arg)) = "nocanon"
              /\ ret.err.path = op.arg
              /\ ret.err.dirs = <<>>

\* the literal path a.json does not exist, the bare name a has a local match
\* and a repository is configured and would serve it; the call failed with
\* the read error
C4_Witness ==
    /\ Retrieved
    /\ op.arg = <<"a", ".", "json">>
    /\ KindOf(Lookup(op.arg)) = "absent"
    /\ LocalMatch(<<"a">>)
    /\ config = "some"
    /\ remote = "up"
    /\ ~ret.ok
    /\ ret.err.kind = "ReadError"

----------------------------------------------------------------------------
(* C5 *)

\* C5: list_available_recipes returns Ok whatever fails underneath: a search
\* path that is missing or no directory, a directory that cannot be opened or
\* enumerated, a file that cannot be read or parsed, the remote list; and
\* when a repository is configured and its list operation fails, the result
\* is exactly the local entries, in their order, with no remote entry.
C5_ListingNeverFails ==
    Listed =>
        /\ listed.ok
        /\ (config = "some" /\ remote = "down") =>
              /\ EventsOf("remote_list") = <<Ev("remote_list", GOOSE_RECIPE_REPO, FALSE)>>
              /\ RemoteEntries = <<>>
              /\ listed.recipes = EntriesOf(Segments(Scans))

\* the remote list failed, a search directory could not be opened, a file of
\* the current directory could not be made an entry, and the listing is Ok
\* with the one good local entry
C5_Witness ==
    /\ Listed
    /\ config = "some"
    /\ remote = "down"
    /\ \E scan \in Range(Scans) : ~scan.ok
    /\ \E k \in 1..Len(trace) : trace[k].ev = "build" /\ ~trace[k].ok
    /\ listed.ok
    /\ Len(listed.recipes) = 1
    /\ listed.recipes[1].source = "Local"

----------------------------------------------------------------------------
(* C6 *)

\* C6: in a search directory that is enumerated to its end, a file whose
\* entry cannot be built (unreadable or unparseable content) is left out and
\* nothing else is: the directory is scanned successfully and contributes one
\* entry for each direct child file with a recognized extension that parses,
\* and none for any other; so a directory with one well-formed and one
\* malformed recipe file contributes exactly one entry.
C6_BuildFailureSkipsOnlyThatFile ==
    Listed =>
        \A scans \in {Scans} : \A files \in {SearchedFiles} :
        /\ Len(scans) = Len(files)
        /\ \A j \in 1..Len(scans) :
              /\ scans[j].dir = SearchDirectoryList[j]
              /\ Enumerated(scans[j]) =>
                    /\ scans[j].ok
                    /\ \A seg \in {Segment(scans[j])} : \A x \in files[j] :
                          Cardinality({ i \in 1..Len(seg) : seg[i] = x.path })
                            = IF Parses(x) THEN 1 ELSE 0
        /\ \A j \in 1..Len(scans) : \A x \in files[j] :
              Occurrences(x.path) =
                IF Parses(x)
                THEN Cardinality({ k \in 1..Len(scans) :
                                     scans[k].dir = scans[j].dir /\ Enumerated(scans[k]) })
                ELSE 0

\* the current directory, the one search directory, holds a well-formed and
\* a malformed recipe file and was enumerated to its end; building the
\* malformed file's entry failed and the listing has exactly one entry
C6_Witness ==
    /\ Listed
    /\ config = "none"
    /\ SearchDirectoryList = << <<".">> >>
    /\ Len(Scans) = 1
    /\ Enumerated(Scans[1])
    /\ \E x, y \in DirFiles(<<".">>) :
          /\ Parses(x)
          /\ y.kind = "malformed"
          /\ Ev("build", y.path, FALSE) \in Range(trace)
          /\ listed.recipes = <<LocalEntry(x.path)>>

----------------------------------------------------------------------------
(* C7 *)

\* the entries the remote repository lists
GitHubListing ==
    IF config = "some" /\ remote = "up"
    THEN list_github_recipes(GOOSE_RECIPE_REPO).recipes ELSE <<>>

\* C7: the listing is what the first search directory contributes, then what
\* the second contributes, and so on in Search Directory List order, then
\* all remote entries: no remote entry precedes a local one, and nothing is
\* dropped for having the name of an earlier entry (a directory enumerated to
\* its end contributes each of its parsable recipe files once, whatever the
\* other directories hold).
C7_ConcatenationInSearchOrder ==
    Listed =>
        \A scans \in {Scans} : \A files \in {SearchedFiles} :
        /\ Len(scans) = Len(files)
        /\ listed.recipes = EntriesOf(Segments(scans)) \o GitHubListing
        /\ \A j \in 1..Len(scans) :
              \A seg \in {Segment(scans[j])} :
              /\ Range(seg) \subseteq Paths(files[j])
              /\ Enumerated(scans[j]) =>
                    /\ Range(seg) = Paths({ x \in files[j] : Parses(x) })
                    /\ \A i1, i2 \in 1..Len(seg) : seg[i1] = seg[i2] => i1 = i2
        /\ \A i1, i2 \in 1..Len(listed.recipes) :
              (listed.recipes[i1].source = "Local" /\ listed.recipes[i2].source = "GitHub")
                => i1 < i2

\* the current directory and the later search directory d each hold a valid
\* recipe named a, and the repository lists recipes: the listing has the
\* two local entries named a, the current directory's first, then the remote
\* entries
C7_Witness ==
    /\ Listed
    /\ SearchDirectoryList = << <<".">>, <<"d">> >>
    /\ Len(listed.recipes) = 4
    /\ listed.recipes[1] = LocalEntry(<<".", "/", "a", ".", "yaml">>)
    /\ listed.recipes[2] = LocalEntry(<<"d", "/", "a", ".", "yaml">>)
    /\ listed.recipes[1].name = listed.recipes[2].name
    /\ listed.recipes[3].source = "GitHub"
    /\ listed.recipes[4].source = "GitHub"

----------------------------------------------------------------------------
(* C8 *)

\* C8: when a bare name has no match in any search directory and a
\* repository is configured, the name is fetched once from that repository
\* and the result of the call is the result of that fetch: the remote
\* content when the fetch succeeds, and the fetch's error, not the NotFound
\* error of the local search, when it fails.
C8_RemoteResultIsFinal ==
    (RetrievedBare /\ ~LocalMatch(op.arg) /\ config = "some") =>
        /\ Fetches = <<Ev("fetch", op.arg, remote = "up")>>
        /\ ret = retrieve_recipe_from_github(op.arg, GOOSE_RECIPE_REPO)
        /\ remote = "up" =>
              /\ ret.ok
              /\ ret.content = [dir |-> "remote", file |-> op.arg]
        /\ remote = "down" =>
              /\ ~ret.ok
              /\ ret.err.kind = "RemoteError"
              /\ ret.err.path = GOOSE_RECIPE_REPO

\* nothing matches locally in two search directories, the configured
\* repository fails, and the call failed with the fetch's error
C8_Witness ==
    /\ RetrievedBare
    /\ Len(SearchDirectoryList) = 2
    /\ ~LocalMatch(op.arg)
    /\ config = "some"
    /\ remote = "down"
    /\ ~ret.ok
    /\ ret.err.kind = "RemoteError"

----------------------------------------------------------------------------
(* C9 *)

\* C9: when a bare name has no match in any search directory and no
\* repository is configured, the call fails with the NotFound error for that
\* name whose directory list is the Search Directory List, each entry in
\* search order, joined by the path separator; nothing is fetched; with
\* GOOSE_RECIPE_PATH unset the list is the one entry for the current directory.
C9_NotFoundListsSearchDirectories ==
    (RetrievedBare /\ ~LocalMatch(op.arg) /\ config # "some") =>
        /\ ~ret.ok
        /\ ret.err.kind = "NotFound"
        /\ ret.err.name = op.arg
        /\ ret.err.dirs = Join(SearchDirectoryList, ":")
        /\ Split(ret.err.dirs, ":") = SearchDirectoryList
        /\ env.state # "set" => ret.err.dirs = <<".">>
        /\ Fetches = <<>>

\* GOOSE_RECIPE_PATH names d, nothing matches, no repository is configured:
\* the error lists the current directory, then d
C9_Witness ==
    /\ RetrievedBare
    /\ env = [state |-> "set", val |-> <<"d">>]
    /\ config = "none"
    /\ ~ret.ok
    /\ ret.err.kind = "NotFound"
    /\ ret.err.dirs = <<".", ":", "d">>

----------------------------------------------------------------------------
(* C10 *)

----------------------------------------------------------------------------
(* C11 *)

\* the directory names GOOSE_RECIPE_PATH was made of, from left to right
EnvDirs == CHOOSE names \in EnvDirLists : Join(names, ":") = env.val

\* C11: the Search Directory List begins with the current directory; when
\* GOOSE_RECIPE_PATH is set every piece of its value follows, from left to
\* right, a piece that repeats an earlier directory or names no directory
\* included; when it is not set the list is the current directory alone; the
\* list resolution builds and the list the listing builds are the same; and
\* a resolution that finds nothing tried exactly these directories in order.
C11_SearchDirectoryList ==
    /\ Len(search_dirs) >= 1
    /\ search_dirs[1] = <<".">>
    /\ env.state = "set" => search_dirs = << <<".">> >> \o EnvDirs
    /\ env.state # "set" => search_dirs = << <<".">> >>
    /\ discover_search_dirs = search_dirs
    /\ (RetrievedBare /\ ~LocalMatch(op.arg)) =>
          [j \in 1..Len(Finds) |-> Finds[j].path] = search_dirs

\* GOOSE_RECIPE_PATH is d:. and nothing matches: the resolution tried the
\* current directory, d, and the current directory again
C11_Witness ==
    /\ RetrievedBare
    /\ env = [state |-> "set", val |-> <<"d", ":", ".">>]
    /\ [j \in 1..Len(Finds) |-> Finds[j].path] = << <<".">>, <<"d">>, <<".">> >>
    /\ discover_search_dirs = << <<".">>, <<"d">>, <<".">> >>

----------------------------------------------------------------------------
(* C12 *)

\* the path, as the call gave it, of the file the call read successfully
PathRead == Last(EventsOf("read")).path

\* C12: a successful local result is content and base directory of one file,
\* the one read last: the content is that file's and the base directory is
\* the parent of that file's canonical path, the absolute path of the
\* directory that holds it, not the parent of the path as it was given; for
\* a bare name that file is in the first search directory with a match, not
\* in an earlier one; so whatever identifier reaches a file, the base
\* directory is that of the file.
C12_BaseIsCanonicalParent ==
    (Retrieved /\ ret.ok /\ ret.content.dir \in RecipeDirs) =>
        \A o \in {Lookup(PathRead)} :
        /\ Last(EventsOf("read")).ok
        /\ o.type = "file"
        /\ ret.content = ContentOf(o)
        /\ ret.base = PathParent(Canonicalize(o))
        /\ ret.base = CanonDir(ret.content.dir)
        /\ ret.base # PathParent(PathRead)
        /\ ~DirectForm(op.arg) =>
              \E e \in Range(RECIPE_FILE_EXTENSIONS) :
                  PathRead = Candidate(SearchDirectoryList[FirstMatch(op.arg)], op.arg, e)

\* the current directory has no match for a and the later search directory
\* d has: the base directory is /cwd/d, neither d, the parent of the path
\* as given, nor /cwd
C12_Witness ==
    /\ RetrievedBare
    /\ ret.ok
    /\ ~HasMatch(<<".">>, op.arg)
    /\ PathParent(PathRead) = <<"d">>
    /\ ret.content.dir = "d"
    /\ ret.base = <<"/", "cwd", "/", "d">>

----------------------------------------------------------------------------
(* C13 *)

\* a command has run
Commanded == op.name \in {"validate", "deeplink"}

\* the recipe file the command retrieved has content that does not parse,
\* such as an unresolved template placeholder
RetrievedInvalid ==
    /\ EventsOf("read") # <<>>
    /\ Last(EventsOf("read")).ok
    /\ \A o \in {Lookup(Last(EventsOf("read")).path)} :
          KindOf(o) = "malformed"

\* C13: handle_deeplink and handle_validate fail exactly when load_recipe
\* fails, and then with the very error load_recipe produced; a recipe whose
\* content has an unresolved template placeholder makes both fail with the
\* validation error, and handle_deeplink gives no URL.
C13_FailureIsTheLoadFailure ==
    Commanded =>
        /\ cmd.ok <=> loaded.ok
        /\ ~loaded.ok => (cmd.err = loaded.err /\ cmd.err # NoErr /\ cmd.url = <<>>)
        /\ RetrievedInvalid =>
              /\ ~cmd.ok
              /\ cmd.err = Err("ValidationError", op.arg, <<>>, <<>>)
              /\ cmd.url = <<>>

C13_Witness ==
    /\ op.name = "deeplink"
    /\ RetrievedInvalid
    /\ ~cmd.ok
    /\ cmd.err.kind = "ValidationError"

----------------------------------------------------------------------------
(* C14 *)

\* the deep link of a recipe
DeeplinkOf(recipe) ==
    DeeplinkPrefix \o UrlEncode(Base64Encode(RecipeJson(recipe)))

\* C14: whenever handle_deeplink succeeds, the string it returns is
\* "goose://recipe?config=" followed by the percent-encoding of the padded
\* base64 text of the recipe's JSON serialization; it is never empty or
\* partial.
C14_SuccessIsTheDeepLink ==
    (op.name = "deeplink" /\ cmd.ok) =>
        /\ cmd.url # <<>>
        /\ cmd.url = DeeplinkOf(loaded.recipe)

\* what holds of the code: the success is the deep link when the recipe
\* could be serialized, and the empty string otherwise
C14_DeepLinkOrEmpty ==
    (op.name = "deeplink" /\ cmd.ok) =>
        cmd.url \in {<<>>, DeeplinkOf(loaded.recipe)}

----------------------------------------------------------------------------
(* C15 *)

Decoded(val) == [ok |-> TRUE, val |-> val]

Undecodable == [ok |-> FALSE, val |-> <<>>]

HexValue(c) ==
    IF c \in 48..57 THEN c - 48 ELSE IF c \in 65..70 THEN c - 55 ELSE c - 87

RECURSIVE UrlDecode(_)
\* %XX stands for the character of code XX
UrlDecode(text) ==
    IF text = <<>> THEN <<>>
    ELSE IF Head(text) = 37 /\ Len(text) >= 3
    THEN <<HexValue(text[2]) * 16 + HexValue(text[3])>>
         \o UrlDecode(SubSeq(text, 4, Len(text)))
    ELSE <<Head(text)>> \o UrlDecode(Tail(text))

IsBase64Char(c) ==
    c \in (65..90) \cup (97..122) \cup (48..57) \cup {43, 47}

Base64Index(c) ==
    IF c \in 65..90 THEN c - 65
    ELSE IF c \in 97..122 THEN c - 71
    ELSE IF c \in 48..57 THEN c + 4
    ELSE IF c = 43 THEN 62 ELSE 63

RECURSIVE Base64Bytes(_)
\* four characters give three bytes, fewer when the group is padded
Base64Bytes(chars) ==
    IF chars = <<>> THEN <<>>
    ELSE LET i1 == Base64Index(chars[1])
             i2 == Base64Index(chars[2])
             i3 == Base64Index(chars[3])
             i4 == Base64Index(chars[4])
         IN  IF chars[3] = 61 THEN << i1 * 4 + i2 \div 16 >>
             ELSE IF chars[4] = 61
             THEN << i1 * 4 + i2 \div 16, (i2 % 16) * 16 + i3 \div 4 >>
             ELSE << i1 * 4 + i2 \div 16, (i2 % 16) * 16 + i3 \div 4,
                     (i3 % 4) * 64 + i4 >>
                  \o Base64Bytes(SubSeq(chars, 5, Len(chars)))

\* padded base64 text: groups of four characters, "=" only at the end
Base64Decode(chars) ==
    IF /\ Len(chars) % 4 = 0
       /\ \A i \in 1..Len(chars) :
             \/ IsBase64Char(chars[i])
             \/ chars[i] = 61 /\ i >= Len(chars) - 1
                /\ (i = Len(chars) - 1 => chars[Len(chars)] = 61)
    THEN Decoded(Base64Bytes(chars))
    ELSE Undecodable

RECURSIVE JsonUnescape(_)
JsonUnescape(text) ==
    IF text = <<>> THEN <<>>
    ELSE IF Head(text) = 92 /\ Len(text) >= 2
    THEN <<text[2]>> \o JsonUnescape(SubSeq(text, 3, Len(text)))
    ELSE <<Head(text)>> \o JsonUnescape(Tail(text))

\* the recipe a JSON text {"title":"..."} stands for
RecipeFromJson(text) ==
    LET open == <<123, 34, 116, 105, 116, 108, 101, 34, 58, 34>>
        close == <<34, 125>>
    IN  IF /\ Len(text) >= Len(open) + Len(close)
           /\ SubSeq(text, 1, Len(open)) = open
           /\ EndsWith(text, close)
        THEN Decoded([title |->
                 JsonUnescape(SubSeq(text, Len(open) + 1, Len(text) - Len(close)))])
        ELSE Undecodable

\* the value of the query parameter config of a deep link
ConfigValue(url) ==
    IF Len(url) >= Len(DeeplinkPrefix)
       /\ SubSeq(url, 1, Len(DeeplinkPrefix)) = DeeplinkPrefix
    THEN Decoded(SubSeq(url, Len(DeeplinkPrefix) + 1, Len(url)))
    ELSE Undecodable

\* the recipe a deep link decodes to
DecodeDeeplink(url) ==
    LET config_value == ConfigValue(url)
        bytes == Base64Decode(UrlDecode(config_value.val))
    IN  IF ~config_value.ok \/ ~bytes.ok THEN Undecodable
        ELSE RecipeFromJson(bytes.val)

\* C15: for every valid recipe, the URL produced by handle_deeplink decodes
\* (query value, percent-decoding, base64 decoding, deserialization) to the
\* recipe that was encoded.
C15_DeeplinkRoundTrip ==
    (op.name = "deeplink" /\ cmd.ok) =>
        DecodeDeeplink(cmd.url) = Decoded(loaded.recipe)

\* what holds of the code: a URL that is not empty decodes to the recipe
C15_RoundTripOfSerialized ==
    (op.name = "deeplink" /\ cmd.ok /\ cmd.url # <<>>) =>
        DecodeDeeplink(cmd.url) = Decoded(loaded.recipe)

\* a URL has been produced in which code stands for a base64 character
Escaped(code) ==
    /\ op.name = "deeplink"
    /\ cmd.ok
    /\ \E i \in 1..Len(cmd.url) :
          i + 2 <= Len(cmd.url) /\ SubSeq(cmd.url, i, i + 2) = code

\* "+" as %2B
C15_EscapedPlus == Escaped(<<37, 50, 66>>)

\* "/" as %2F
C15_EscapedSlash == Escaped(<<37, 50, 70>>)

\* "=" as %3D
C15_EscapedPad == Escaped(<<37, 51, 68>>)

----------------------------------------------------------------------------
(* C16 *)

\* the configuration lookup gives no repository: no value, or it fails
NotConfigured == config \in {"none", "err"}

\* C16: when no remote repository is configured, neither the remote fetch
\* nor the remote listing is invoked: the listing succeeds with local
\* entries only, and retrieving a bare name without local match fails with
\* the NotFound error of the local search; a call looks the configuration
\* up at most once.
C16_NoRemoteWithoutConfiguration ==
    /\ Len(EventsOf("config")) <= 1
    /\ NotConfigured =>
          /\ EventsOf("fetch") = <<>>
          /\ EventsOf("remote_list") = <<>>
          /\ Listed =>
                /\ listed.ok
                /\ listed.recipes = LocalEntries
                /\ listed.recipes = EntriesOf(Segments(Scans))
          /\ (RetrievedBare /\ ~LocalMatch(op.arg)) =>
                /\ ~ret.ok
                /\ ret.err.kind = "NotFound"
                /\ ret.err.name = op.arg
                /\ ret.err.dirs = Join(SearchDirectoryList, ":")

C16_Witness ==
    /\ RetrievedBare
    /\ ~LocalMatch(op.arg)
    /\ config = "err"
    /\ remote = "up"
    /\ Len(EventsOf("config")) = 1
    /\ ~ret.ok
    /\ ret.err.kind = "NotFound"

----------------------------------------------------------------------------
(* C17 *)

\* the extensions find-by-name tries in the directory: all of them up to the
\* first whose candidate is read, every one when none is
TriedIn(dir, name) ==
    LET matching == { k \in 1..Len(RECIPE_FILE_EXTENSIONS) :
                        Matchable(Candidate(dir, name, RECIPE_FILE_EXTENSIONS[k])) }
        last == IF matching = {} THEN Len(RECIPE_FILE_EXTENSIONS)
                ELSE CHOOSE k \in matching : \A m \in matching : k <= m
    IN  [k \in 1..last |-> Candidate(dir, name, RECIPE_FILE_EXTENSIONS[k])]

RECURSIVE TriedFrom(_, _)
\* the candidates the search tries from the i-th search directory on
TriedFrom(name, i) ==
    IF i > Len(SearchDirectoryList) THEN <<>>
    ELSE TriedIn(SearchDirectoryList[i], name)
         \o (IF HasMatch(SearchDirectoryList[i], name) THEN <<>>
             ELSE TriedFrom(name, i + 1))

\* C17: in find-by-name a candidate that fails (missing, unreadable, not
\* text) only counts as not found: the next extension is tried, and the
\* next search directory, so the first candidate that can be read is
\* returned whatever failed before it; find-by-name fails in a directory
\* only when the candidate of every extension failed, and a bare name never
\* fails with the error of a candidate.
C17_CandidateFailureIsNotFound ==
    RetrievedBare =>
        \A reads \in {EventsOf("read")} : \A tried \in {TriedFrom(op.arg, 1)} :
        /\ [j \in 1..Len(reads) |-> reads[j].path] = tried
        /\ \A j \in 1..Len(reads) :
              /\ reads[j].ok <=> Matchable(reads[j].path)
              /\ reads[j].ok => j = Len(reads)
        /\ \A j \in 1..Len(Finds) :
              Finds[j].ok <=> HasMatch(Finds[j].path, op.arg)
        /\ LocalMatch(op.arg) =>
              /\ ret.ok
              /\ ret.content = ContentOf(Lookup(tried[Len(tried)]))
        /\ ~ret.ok => ret.err.kind \in {"NotFound", "RemoteError"}
        /\ (~ret.ok /\ ret.err.kind = "NotFound") => ~LocalMatch(op.arg)

\* ./a.yaml exists and cannot be read, ./a.json is missing, d/a.yaml is
\* missing: d/a.json is returned
C17_Witness ==
    /\ RetrievedBare
    /\ SearchDirectoryList = << <<".">>, <<"d">> >>
    /\ KindOf(Lookup(<<".", "/", "a", ".", "yaml">>)) = "unreadable"
    /\ Len(EventsOf("read")) = 4
    /\ ret.ok
    /\ ret.content = [dir |-> "d", file |-> <<"a", ".", "json">>]

----------------------------------------------------------------------------
(* C18 *)

RECURSIVE AllBuilt(_)
\* the files the scans built an entry for, whether the scan succeeded or not
AllBuilt(scans) ==
    IF scans = <<>> THEN <<>> ELSE Built(Head(scans)) \o AllBuilt(Tail(scans))

\* C18: a failure while a search directory is enumerated (it cannot be
\* opened, or reading one of its entries fails part-way) loses nothing that
\* was built: the entries already built in that directory and the entries of
\* every other search directory are in the listing; a search path that does
\* not exist or is no directory contributes nothing and is no error.
C18_EnumerationFailureKeepsEntries ==
    Listed =>
        \A scans \in {Scans} :
        /\ listed.ok
        /\ LocalEntries = EntriesOf(AllBuilt(scans))
        /\ \A j \in 1..Len(scans) :
              ~IsDir(scans[j].dir) => (scans[j].ok /\ scans[j].steps = <<>>)

\* what holds of the code: a directory whose enumeration fails contributes
\* nothing, the entries built before the failure included; the other
\* directories contribute all they built
C18_FailedDirectoryContributesNothing ==
    Listed =>
        \A scans \in {Scans} :
        /\ listed.ok
        /\ LocalEntries = EntriesOf(Segments(scans))
        /\ \A j \in 1..Len(scans) :
              /\ ~IsDir(scans[j].dir) => (scans[j].ok /\ scans[j].steps = <<>>)
              /\ scans[j].ok <=> (~IsDir(scans[j].dir) \/ Enumerated(scans[j]))

\* an entry was built in a directory whose enumeration then failed, and the
\* listing does not have it
C18_BuiltEntryLost ==
    /\ Listed
    /\ \E j \in 1..Len(Scans) :
          /\ ~Scans[j].ok
          /\ Built(Scans[j]) # <<>>
          /\ \A i \in 1..Len(Built(Scans[j])) : Occurrences(Built(Scans[j])[i]) = 0

----------------------------------------------------------------------------
(* C19 *)

\* the positions of the Search Directory List that name the directory
OccurrencesOfDir(dir) ==
    { k \in 1..Len(SearchDirectoryList) : SearchDirectoryList[k] = dir }

RECURSIVE ValidFilesFrom(_, _, _)
\* how many valid recipe files the scans from the j-th on met in directories
\* enumerated to the end, each counted once per scan
ValidFilesFrom(scans, files, j) ==
    IF j > Len(scans) THEN 0
    ELSE (IF Enumerated(scans[j])
          THEN Cardinality({ x \in files[j] : Parses(x) }) ELSE 0)
         + ValidFilesFrom(scans, files, j + 1)

\* C19: the local part of the listing has one entry for each occurrence of a
\* directory in the Search Directory List (enumerated to its end) and each
\* valid recipe file in it: a directory that occurs k times has each of its
\* valid recipe files listed k times; retrieving such a name gives the one
\* result of the first occurrence that has a match, and the search stops
\* there.
C19_OneEntryPerOccurrence ==
    /\ Listed =>
          \A scans \in {Scans} : \A files \in {SearchedFiles} :
          /\ Len(scans) = Len(SearchDirectoryList)
          /\ \A j \in 1..Len(scans) : scans[j].dir = SearchDirectoryList[j]
          /\ Len(LocalEntries) = ValidFilesFrom(scans, files, 1)
          /\ \A j \in 1..Len(scans) : \A x \in files[j] :
                (Parses(x) /\ \A k \in OccurrencesOfDir(scans[j].dir) : Enumerated(scans[k]))
                  => Occurrences(x.path) = Cardinality(OccurrencesOfDir(scans[j].dir))
    /\ (RetrievedBare /\ LocalMatch(op.arg)) =>
          \A first \in {FirstMatch(op.arg)} :
          /\ ret.ok
          /\ Len(Finds) = first
          /\ \E e \in Range(RECIPE_FILE_EXTENSIONS) :
                \A path \in {Candidate(SearchDirectoryList[first], op.arg, e)} :
                    Matchable(path) /\ ret.content = ContentOf(Lookup(path))

\* GOOSE_RECIPE_PATH names the current directory: its valid recipe a.yaml is
\* listed twice
C19_Witness ==
    /\ Listed
    /\ SearchDirectoryList = << <<".">>, <<".">> >>
    /\ Parses([path |-> <<".", "/", "a", ".", "yaml">>,
               kind |-> KindOf(Lookup(<<".", "/", "a", ".", "yaml">>))])
    /\ Occurrences(<<".", "/", "a", ".", "yaml">>) = 2
    /\ Len(LocalEntries) = 2

\* the resolution side: with the current directory twice in the list, the
\* name is retrieved from its first occurrence after one find
C19_ResolvedOnce ==
    /\ RetrievedBare
    /\ SearchDirectoryList = << <<".">>, <<".">> >>
    /\ ret.ok
    /\ Len(Finds) = 1

----------------------------------------------------------------------------
(* C20 *)

\* the positions of the Search Directory List the listing has the entry from
ListedFrom(entry) ==
    { j \in 1..Len(Scans) : entry.path \in Range(Segment(Scans[j])) }

\* retrieve_recipe_file(name), called in the present state of the file
\* system, environment and configuration, succeeds from a local search
\* directory that is no later than each of the positions, without a fetch
ResolvesLocally(name, positions) ==
    \A r \in {retrieve_recipe_file(name)} :
        /\ r.res.ok
        /\ r.res.content.dir \in RecipeDirs
        /\ \A k \in 1..Len(r.tr) : r.tr[k].ev # "fetch"
        /\ \A j \in positions :
              Cardinality({ k \in 1..Len(r.tr) : r.tr[k].ev = "find" }) <= j

\* the entries the claim is about: Local, with a name that is no direct path
AgreementEntries ==
    { i \in 1..Len(listed.recipes) :
        listed.recipes[i].source = "Local" /\ ~DirectForm(listed.recipes[i].name) }

Canonicalizable(entry) == CanCanonicalize(Lookup(entry.path))

====
